---------------------------- MODULE Spec2Model ----------------------------
(***************************************************************************)
(* Schema conversion from a PostgreSQL source schema to Spanner DDL, as    *)
(* implemented in postgres/toddl.go: the scalar type mapping               *)
(* (toSpannerType), the per-column post-processing, the key converters     *)
(* (cvtPrimaryKeys, cvtForeignKeys, cvtIndexes) and the orchestrator       *)
(* (schemaToDDL).                                                          *)
(*                                                                         *)
(* Collaborators that live in package internal (GetSpannerTable,           *)
(* GetSpannerCol, ToSpannerForeignKey, ToSpannerIndexName, Unexpected,     *)
(* ResolveRefs) are modelled from their documented contract.  The Comment  *)
(* fields of ddl.ColumnDef and ddl.CreateTable are pure renderings of the  *)
(* source names (quoteIfNeeded, Type.Print); they are not part of the      *)
(* modelled records.                                                       *)
(***************************************************************************)
EXTENDS Integers, Sequences, FiniteSets, TLC

VARIABLES
    targetDb,      \* conv.TargetDb
    badTables,     \* source table names for which GetSpannerTable fails
    badCols,       \* <<table, column>> pairs for which GetSpannerCol fails
    srcSchema,     \* conv.SrcSchema: source table name -> schema.Table
    spSchema,      \* conv.SpSchema: Spanner table name -> ddl.CreateTable
    issues,        \* conv.Issues: source table -> source column -> issues
    unexpected,    \* the messages handed to conv.Unexpected, in call order
    usedNames,     \* the usedNames map of schemaToDDL (its key set)
    allocated,     \* names handed out by the allocator so far, in order
    seeded,        \* tables visited by the first loop of schemaToDDL
    converted,     \* tables visited by the second loop of schemaToDDL
    resolveCalls,  \* number of calls of internal.ResolveRefs
    pc,            \* position of the running function
    arg,           \* arguments of the function run on its own
    idx,           \* loop index of the function run on its own
    ret,           \* its result so far
    origin         \* history: source position of each element of ret

vars == <<targetDb, badTables, badCols, srcSchema, spSchema, issues,
          unexpected, usedNames, allocated, seeded, converted, resolveCalls,
          pc, arg, idx, ret, origin>>

-----------------------------------------------------------------------------
(* Bounds of the explored inputs. *)

MaxMods == 2     \* longest type modifier list
MaxDims == 2     \* most array dimensions of a column
MaxFks  == 2     \* most foreign keys of a table
MaxIdx  == 2     \* most indexes of a table

SeqsUpTo(S, n) == UNION {[1..k -> S] : k \in 0..n}

Put(f, k, v) == [x \in (DOMAIN f) \cup {k} |-> IF x = k THEN v ELSE f[x]]

EmptyMap == [x \in {} |-> 0]

-----------------------------------------------------------------------------
(* spanner/ddl: the type vocabulary. *)

Bool      == "BOOL"
Bytes     == "BYTES"
Date      == "DATE"
Float64   == "FLOAT64"
Int64     == "INT64"
String    == "STRING"
Timestamp == "TIMESTAMP"
Numeric   == "NUMERIC"

TypeTags == {Bool, Bytes, Date, Float64, Int64, String, Timestamp, Numeric}

MaxLength == 2621440

\* ddl.Type{Name: name, Len: len}; IsArray keeps Go's zero value.
Type(name, len) == [Name |-> name, Len |-> len, IsArray |-> FALSE]

-----------------------------------------------------------------------------
(* toSpannerType: the scalar type mapping. *)

Mapped(ty, iss) == [ty |-> ty, issues |-> iss]

toSpannerTypeNoWiden(id, mods) ==
    CASE id \in {"bool", "boolean"} -> Mapped(Type(Bool, 0), <<>>)
      [] id = "bigserial" -> Mapped(Type(Int64, 0), <<"Serial">>)
      [] id \in {"bpchar", "character"} ->
            IF Len(mods) > 0 THEN Mapped(Type(String, mods[1]), <<>>)
                             ELSE Mapped(Type(String, 1), <<>>)
      [] id = "bytea" -> Mapped(Type(Bytes, MaxLength), <<>>)
      [] id = "date" -> Mapped(Type(Date, 0), <<>>)
      [] id \in {"float8", "double precision"} -> Mapped(Type(Float64, 0), <<>>)
      [] id \in {"float4", "real"} -> Mapped(Type(Float64, 0), <<>>)
      [] id \in {"int8", "bigint"} -> Mapped(Type(Int64, 0), <<>>)
      [] id \in {"int4", "integer"} -> Mapped(Type(Int64, 0), <<"Widened">>)
      [] id \in {"int2", "smallint"} -> Mapped(Type(Int64, 0), <<"Widened">>)
      [] id = "numeric" -> Mapped(Type(Numeric, 0), <<>>)
      [] id = "serial" -> Mapped(Type(Int64, 0), <<"Serial">>)
      [] id = "text" -> Mapped(Type(String, MaxLength), <<>>)
      [] id \in {"timestamptz", "timestamp with time zone"} ->
            Mapped(Type(Timestamp, 0), <<>>)
      [] id \in {"timestamp", "timestamp without time zone"} ->
            Mapped(Type(Timestamp, 0), <<"Timestamp">>)
      [] id \in {"varchar", "character varying"} ->
            IF Len(mods) > 0 THEN Mapped(Type(String, mods[1]), <<>>)
                             ELSE Mapped(Type(String, MaxLength), <<>>)
      [] OTHER -> Mapped(Type(String, MaxLength), <<"NoGoodType">>)

toSpannerType(id, mods) ==
    CASE id \in {"bool", "boolean"} -> Mapped(Type(Bool, 0), <<>>)
      [] id = "bigserial" -> Mapped(Type(Int64, 0), <<"Serial">>)
      [] id \in {"bpchar", "character"} ->
            IF Len(mods) > 0 THEN Mapped(Type(String, mods[1]), <<>>)
                             ELSE Mapped(Type(String, 1), <<>>)
      [] id = "bytea" -> Mapped(Type(Bytes, MaxLength), <<>>)
      [] id = "date" -> Mapped(Type(Date, 0), <<>>)
      [] id \in {"float8", "double precision"} -> Mapped(Type(Float64, 0), <<>>)
      [] id \in {"float4", "real"} -> Mapped(Type(Float64, 0), <<"Widened">>)
      [] id \in {"int8", "bigint"} -> Mapped(Type(Int64, 0), <<>>)
      [] id \in {"int4", "integer"} -> Mapped(Type(Int64, 0), <<"Widened">>)
      [] id \in {"int2", "smallint"} -> Mapped(Type(Int64, 0), <<"Widened">>)
      [] id = "numeric" -> Mapped(Type(Numeric, 0), <<>>)
      [] id = "serial" -> Mapped(Type(Int64, 0), <<"Serial">>)
      [] id = "text" -> Mapped(Type(String, MaxLength), <<>>)
      [] id \in {"timestamptz", "timestamp with time zone"} ->
            Mapped(Type(Timestamp, 0), <<>>)
      [] id \in {"timestamp", "timestamp without time zone"} ->
            Mapped(Type(Timestamp, 0), <<"Timestamp">>)
      [] id \in {"varchar", "character varying"} ->
            IF Len(mods) > 0 THEN Mapped(Type(String, mods[1]), <<>>)
                             ELSE Mapped(Type(String, MaxLength), <<>>)
      [] OTHER -> Mapped(Type(String, MaxLength), <<"NoGoodType">>)

\* The identifiers toSpannerType switches on.
KnownTypeIds ==
    {"bool", "boolean", "bigserial", "bpchar", "character", "bytea", "date",
     "float8", "double precision", "float4", "real", "int8", "bigint",
     "int4", "integer", "int2", "smallint", "numeric", "serial", "text",
     "timestamptz", "timestamp with time zone", "timestamp",
     "timestamp without time zone", "varchar", "character varying"}

\* Identifiers outside the switch: the SQL keyword char, an unsupported
\* type, and an upper-case spelling.
OtherTypeIds == {"char", "json", "BOOL"}

TypeIds == KnownTypeIds \cup OtherTypeIds

ModVals == {1, 50}

-----------------------------------------------------------------------------
(* Values of the variables a specification does not use. *)

Idle ==
    /\ targetDb = "spanner"
    /\ badTables = {}
    /\ badCols = {}
    /\ srcSchema = EmptyMap
    /\ spSchema = EmptyMap
    /\ issues = EmptyMap
    /\ unexpected = <<>>
    /\ usedNames = {}
    /\ allocated = <<>>
    /\ seeded = {}
    /\ converted = {}
    /\ resolveCalls = 0
    /\ idx = 0
    /\ origin = <<>>

-----------------------------------------------------------------------------
(* toSpannerType run on its own. *)

InitType ==
    /\ Idle
    /\ pc = "toSpannerType"
    /\ arg \in [id : TypeIds, mods : SeqsUpTo(ModVals, MaxMods)]
    /\ ret = <<>>

MapType ==
    /\ pc = "toSpannerType"
    /\ ret' = toSpannerType(arg.id, arg.mods)
    /\ pc' = "done"
    /\ UNCHANGED <<targetDb, badTables, badCols, srcSchema, spSchema, issues,
                   unexpected, usedNames, allocated, seeded, converted,
                   resolveCalls, arg, idx, origin>>

NextType == MapType

SpecType == InitType /\ [][NextType]_vars

-----------------------------------------------------------------------------
(* package internal: name resolution and the diagnostic sink. *)

\* The Spanner identifier of a source identifier: characters Spanner does
\* not accept are replaced by an underscore.
SpName(s) == CASE s = "line-items" -> "line_items"
               [] s = "unit price" -> "unit_price"
               [] OTHER -> s

\* internal.GetSpannerTable(conv, srcTable): (name, err).
GetSpannerTable(srcTable) ==
    [ok |-> srcTable \notin badTables, name |-> SpName(srcTable)]

\* internal.GetSpannerCol(conv, srcTable, srcCol, mustExist): (name, err).
GetSpannerCol(srcTable, srcCol, mustExist) ==
    [ok |-> <<srcTable, srcCol>> \notin badCols, name |-> SpName(srcCol)]

\* conv.Unexpected(msg): the message, kept as the values it is formatted from.
Unexpected(diag, msg) == Append(diag, msg)

-----------------------------------------------------------------------------
(* The column loop of schemaToDDL. *)

ExperimentalPostgres == "experimental_postgres"

overrideExperimentalTypeNoDate(srcCol, originalType) ==
    IF originalType.Name \in {Numeric}
    THEN Type(String, MaxLength)
    ELSE IF Len(srcCol.Type.ArrayBounds) > 0
         THEN Type(String, MaxLength)
         ELSE originalType

overrideExperimentalType(srcCol, originalType) ==
    IF originalType.Name \in {Numeric, Date}
    THEN Type(String, MaxLength)
    ELSE IF Len(srcCol.Type.ArrayBounds) > 0
         THEN Type(String, MaxLength)
         ELSE originalType

\* Lines 66-83: the mapped type, post-processed for the target dialect, and
\* the issues of the column.
ConvertColumn(srcCol) ==
    LET m    == toSpannerType(srcCol.Type.Name, srcCol.Type.Mods)
        d    == Len(srcCol.Type.ArrayBounds)
        exp  == targetDb = ExperimentalPostgres
        ty   == IF exp
                THEN overrideExperimentalType(srcCol, m.ty)
                ELSE [(IF d > 1 THEN Type(String, MaxLength) ELSE m.ty)
                        EXCEPT !.IsArray = (d = 1)]
        iss1 == IF ~exp /\ d > 1
                THEN Append(m.issues, "MultiDimensionalArray")
                ELSE m.issues
        iss2 == IF srcCol.Ignored.ForeignKey
                THEN Append(iss1, "ForeignKey") ELSE iss1
        iss3 == IF srcCol.Ignored.Default
                THEN Append(iss2, "DefaultValue") ELSE iss2
    IN  [ty |-> ty, issues |-> iss3]

ColNeverSkipped(r) == FALSE

\* Lines 61-64: a column whose name does not resolve is skipped.
ColSkipped(r) == ~r.ok

\* One iteration of the loop over srcTable.ColNames (lines 58-94).  acc holds
\* spColNames, spColDef, conv.Issues[srcTable.Name] and the diagnostics.
ColIter(acc, tname, srcCol) ==
    LET r == GetSpannerCol(tname, srcCol.Name, FALSE) IN
    IF ColSkipped(r)
    THEN [acc EXCEPT !.diag = Unexpected(@,
            [what |-> "column", table |-> tname, column |-> srcCol.Name])]
    ELSE LET c == ConvertColumn(srcCol) IN
         [colNames |-> Append(acc.colNames, r.name),
          colDefs  |-> Put(acc.colDefs, r.name,
                           [Name |-> r.name, T |-> c.ty,
                            NotNull |-> srcCol.NotNull]),
          issues   |-> IF Len(c.issues) > 0
                       THEN Put(acc.issues, srcCol.Name, c.issues)
                       ELSE acc.issues,
          diag     |-> acc.diag]

RECURSIVE ColLoop(_, _, _, _)
ColLoop(acc, srcTable, i, n) ==
    IF i > n THEN acc
    ELSE ColLoop(ColIter(acc, srcTable.Name,
                         srcTable.ColDefs[srcTable.ColNames[i]]),
                 srcTable, i + 1, n)

\* A schema.Column.
Column(name, tyName, mods, bounds, notNull, fk, def) ==
    [Name |-> name,
     Type |-> [Name |-> tyName, Mods |-> mods, ArrayBounds |-> bounds],
     NotNull |-> notNull,
     Ignored |-> [ForeignKey |-> fk, Default |-> def]]

\* One identifier for each outcome of toSpannerType.
ColTypeIds == {"bool", "bigserial", "bpchar", "bytea", "date", "float8",
               "float4", "int8", "int4", "numeric", "text", "timestamptz",
               "timestamp", "varchar", "json"}

ColumnPool ==
    {Column("unit price", t, m, b, nn, fk, def) :
        t \in ColTypeIds, m \in {<<>>, <<50>>},
        b \in SeqsUpTo({-1}, MaxDims), nn \in BOOLEAN,
        fk \in BOOLEAN, def \in BOOLEAN}

IdColumn == Column("id", "int8", <<>>, <<>>, TRUE, FALSE, FALSE)

\* The column loop run on its own, on a table with one column drawn from
\* ColumnPool followed by the column id.
InitCol ==
    /\ targetDb \in {"spanner", ExperimentalPostgres}
    /\ badTables = {}
    /\ badCols \in SUBSET {<<"orders", "unit price">>}
    /\ \E c \in ColumnPool :
          arg = [Name |-> "orders", ColNames |-> <<c.Name, "id">>,
                 ColDefs |-> (c.Name :> c) @@ ("id" :> IdColumn)]
    /\ srcSchema = EmptyMap
    /\ spSchema = EmptyMap
    /\ issues = ("orders" :> EmptyMap)
    /\ unexpected = <<>>
    /\ usedNames = {}
    /\ allocated = <<>>
    /\ seeded = {}
    /\ converted = {}
    /\ resolveCalls = 0
    /\ pc = "columns"
    /\ idx = 0
    /\ ret = [colNames |-> <<>>, colDefs |-> EmptyMap]
    /\ origin = <<>>

ColStep ==
    /\ pc = "columns"
    /\ idx < Len(arg.ColNames)
    /\ LET acc == [colNames |-> ret.colNames, colDefs |-> ret.colDefs,
                   issues |-> issues[arg.Name], diag |-> unexpected]
           out == ColIter(acc, arg.Name, arg.ColDefs[arg.ColNames[idx + 1]])
       IN  /\ ret' = [colNames |-> out.colNames, colDefs |-> out.colDefs]
           /\ origin' = IF Len(out.colNames) > Len(ret.colNames)
                        THEN Append(origin, idx + 1) ELSE origin
           /\ issues' = [issues EXCEPT ![arg.Name] = out.issues]
           /\ unexpected' = out.diag
    /\ idx' = idx + 1
    /\ pc' = IF idx + 1 = Len(arg.ColNames) THEN "done" ELSE "columns"
    /\ UNCHANGED <<targetDb, badTables, badCols, srcSchema, spSchema,
                   usedNames, allocated, seeded, converted, resolveCalls, arg>>

NextCol == ColStep

SpecCol == InitCol /\ [][NextCol]_vars

-----------------------------------------------------------------------------
(* package internal: the allocator of foreign key and index names. *)

\* The first suffixed alternative of candidate that is not in used.
FirstFree(candidate, used) ==
    LET n == CHOOSE k \in 2..(Cardinality(used) + 2) :
                /\ (candidate \o "_" \o ToString(k)) \notin used
                /\ \A j \in 2..(k - 1) :
                      (candidate \o "_" \o ToString(j)) \in used
    IN  candidate \o "_" \o ToString(n)

\* The candidate if it is unused, else the first unused alternative; the
\* returned name is inserted into the set.
Allocate(candidate, used) ==
    LET name == IF candidate \notin used THEN candidate
                ELSE FirstFree(candidate, used)
    IN  [name |-> name, used |-> used \cup {name}]

ToSpannerForeignKey(srcKeyName, used) == Allocate(srcKeyName, used)

ToSpannerIndexName(srcIndexName, used) == Allocate(srcIndexName, used)

-----------------------------------------------------------------------------
(* cvtPrimaryKeys. *)

RECURSIVE PkLoop(_, _, _, _)
PkLoop(acc, srcTable, srcKeys, i) ==
    IF i > Len(srcKeys) THEN acc
    ELSE LET k == srcKeys[i]
             r == GetSpannerCol(srcTable, k.Column, TRUE)
         IN  PkLoop(IF ~r.ok
                    THEN [acc EXCEPT !.diag = Unexpected(@,
                            [what |-> "key", table |-> srcTable])]
                    ELSE [acc EXCEPT !.keys = Append(@,
                            [Col |-> r.name, Desc |-> k.Desc])],
                    srcTable, srcKeys, i + 1)

cvtPrimaryKeys(srcTable, srcKeys, diag) ==
    PkLoop([keys |-> <<>>, diag |-> diag], srcTable, srcKeys, 1)

-----------------------------------------------------------------------------
(* cvtForeignKeys. *)

FkDropReasonNoTable(key) ==
    IF Len(key.Columns) # Len(key.ReferColumns) THEN "length" ELSE "none"

\* Lines 209-217: why a foreign key is skipped before its columns are read.
FkDropReason(key) ==
    IF Len(key.Columns) # Len(key.ReferColumns) THEN "length"
    ELSE IF ~GetSpannerTable(key.ReferTable).ok THEN "table"
    ELSE "none"

\* Lines 219-228: the loop over the column pairs of one foreign key.
RECURSIVE FkColLoop(_, _, _, _)
FkColLoop(acc, srcTable, key, i) ==
    IF i > Len(key.Columns) THEN acc
    ELSE LET r1 == GetSpannerCol(srcTable, key.Columns[i], FALSE)
             r2 == GetSpannerCol(key.ReferTable, key.ReferColumns[i], FALSE)
         IN  FkColLoop(IF ~r1.ok \/ ~r2.ok
                       THEN [acc EXCEPT !.diag = Unexpected(@,
                               [what |-> "fk-column", table |-> srcTable,
                                refer |-> key.ReferTable,
                                column |-> key.Columns[i]])]
                       ELSE [acc EXCEPT !.cols = Append(@, r1.name),
                                        !.refs = Append(@, r2.name)],
                       srcTable, key, i + 1)

\* One iteration of the loop over srcKeys (lines 208-236).  acc holds spKeys,
\* usedNames, the names allocated so far and the diagnostics.
FkIter(acc, srcTable, key) ==
    LET why == FkDropReason(key) IN
    IF why = "length"
    THEN [acc EXCEPT !.diag = Unexpected(@,
            [what |-> "fk-length", columns |-> Len(key.Columns),
             referColumns |-> Len(key.ReferColumns),
             table |-> srcTable, refer |-> key.ReferTable])]
    ELSE IF why = "table"
    THEN [acc EXCEPT !.diag = Unexpected(@,
            [what |-> "fk-table", table |-> srcTable,
             refer |-> key.ReferTable])]
    ELSE LET c == FkColLoop([cols |-> <<>>, refs |-> <<>>, diag |-> acc.diag],
                            srcTable, key, 1)
             a == ToSpannerForeignKey(key.Name, acc.used)
         IN  [keys  |-> Append(acc.keys,
                          [Name |-> a.name, Columns |-> c.cols,
                           ReferTable |-> GetSpannerTable(key.ReferTable).name,
                           ReferColumns |-> c.refs]),
              used  |-> a.used,
              alloc |-> Append(acc.alloc, a.name),
              diag  |-> c.diag]

RECURSIVE FkLoop(_, _, _, _)
FkLoop(acc, srcTable, srcKeys, i) ==
    IF i > Len(srcKeys) THEN acc
    ELSE FkLoop(FkIter(acc, srcTable, srcKeys[i]), srcTable, srcKeys, i + 1)

cvtForeignKeys(srcTable, srcKeys, used, alloc, diag) ==
    FkLoop([keys |-> <<>>, used |-> used, alloc |-> alloc, diag |-> diag],
           srcTable, srcKeys, 1)

\* A schema.ForeignKey.
ForeignKey(name, cols, referTable, referCols) ==
    [Name |-> name, Columns |-> cols, ReferTable |-> referTable,
     ReferColumns |-> referCols]

FkPool ==
    {ForeignKey(n, s[1], t, s[2]) :
        n \in {"fk", "orders"},
        s \in {<<(<<"id">>), <<"id">>>>,
               <<(<<"id", "ref">>), <<"id", "ref">>>>,
               <<(<<"id", "ref">>), <<"id">>>>},
        t \in {"line-items", "ghost"}}

\* cvtForeignKeys run on its own for the table orders.
InitFk ==
    /\ targetDb = "spanner"
    /\ badTables \in {{}, {"ghost"}, {"line-items"}}
    /\ badCols \in SUBSET {<<"orders", "ref">>, <<"line-items", "id">>}
    /\ arg \in [srcTable : {"orders"},
                srcKeys : SeqsUpTo(FkPool, MaxFks),
                usedNames : {{"orders", "line_items"}}]
    /\ usedNames = arg.usedNames
    /\ srcSchema = EmptyMap
    /\ spSchema = EmptyMap
    /\ issues = EmptyMap
    /\ unexpected = <<>>
    /\ allocated = <<>>
    /\ seeded = {}
    /\ converted = {}
    /\ resolveCalls = 0
    /\ pc = IF Len(arg.srcKeys) = 0 THEN "done" ELSE "cvtForeignKeys"
    /\ idx = 0
    /\ ret = <<>>
    /\ origin = <<>>

FkStep ==
    /\ pc = "cvtForeignKeys"
    /\ idx < Len(arg.srcKeys)
    /\ LET acc == [keys |-> ret, used |-> usedNames, alloc |-> allocated,
                   diag |-> unexpected]
           out == FkIter(acc, arg.srcTable, arg.srcKeys[idx + 1])
       IN  /\ ret' = out.keys
           /\ usedNames' = out.used
           /\ allocated' = out.alloc
           /\ unexpected' = out.diag
           /\ origin' = IF Len(out.keys) > Len(ret)
                        THEN Append(origin, idx + 1) ELSE origin
    /\ idx' = idx + 1
    /\ pc' = IF idx + 1 = Len(arg.srcKeys) THEN "done" ELSE "cvtForeignKeys"
    /\ UNCHANGED <<targetDb, badTables, badCols, srcSchema, spSchema, issues,
                   seeded, converted, resolveCalls, arg>>

NextFk == FkStep

SpecFk == InitFk /\ [][NextFk]_vars

-----------------------------------------------------------------------------
(* cvtIndexes. *)

\* Lines 244-251: the loop over the key columns of one index.
RECURSIVE IdxKeyLoop(_, _, _, _)
IdxKeyLoop(acc, srcTable, keys, i) ==
    IF i > Len(keys) THEN acc
    ELSE LET k == keys[i]
             r == GetSpannerCol(srcTable, k.Column, TRUE)
         IN  IdxKeyLoop(IF ~r.ok
                        THEN [acc EXCEPT !.diag = Unexpected(@,
                                [what |-> "index-key", table |-> srcTable])]
                        ELSE [acc EXCEPT !.keys = Append(@,
                                [Col |-> r.name, Desc |-> k.Desc])],
                        srcTable, keys, i + 1)

IndexNameAsDeclared(srcTable, name) == name

\* Lines 252-256: the name handed to the allocator.
IndexName(srcTable, name) ==
    IF name = "" THEN "Index_" \o srcTable ELSE name

\* One iteration of the loop over srcIndexes (lines 242-265).
IdxIter(acc, spTableName, srcTable, srcIndex) ==
    LET k == IdxKeyLoop([keys |-> <<>>, diag |-> acc.diag],
                        srcTable, srcIndex.Keys, 1)
        a == ToSpannerIndexName(IndexName(srcTable, srcIndex.Name), acc.used)
    IN  [indexes |-> Append(acc.indexes,
                       [Name |-> a.name, Table |-> spTableName,
                        Unique |-> srcIndex.Unique, Keys |-> k.keys]),
         used    |-> a.used,
         alloc   |-> Append(acc.alloc, a.name),
         diag    |-> k.diag]

RECURSIVE IdxLoop(_, _, _, _, _)
IdxLoop(acc, spTableName, srcTable, srcIndexes, i) ==
    IF i > Len(srcIndexes) THEN acc
    ELSE IdxLoop(IdxIter(acc, spTableName, srcTable, srcIndexes[i]),
                 spTableName, srcTable, srcIndexes, i + 1)

cvtIndexes(spTableName, srcTable, srcIndexes, used, alloc, diag) ==
    IdxLoop([indexes |-> <<>>, used |-> used, alloc |-> alloc, diag |-> diag],
            spTableName, srcTable, srcIndexes, 1)

\* A schema.Key and a schema.Index.
Key(col, desc) == [Column |-> col, Desc |-> desc]

Index(name, unique, keys) == [Name |-> name, Unique |-> unique, Keys |-> keys]

IdxPool ==
    {Index(n, u, k) :
        n \in {"", "idx"}, u \in BOOLEAN,
        k \in {<<Key("id", FALSE)>>, <<Key("ref", TRUE), Key("id", FALSE)>>}}

\* cvtIndexes run on its own.
InitIdx ==
    /\ targetDb = "spanner"
    /\ badTables = {}
    /\ \E t \in {"orders", "line-items"} :
          /\ badCols \in SUBSET {<<t, "ref">>}
          /\ arg \in [spTableName : {SpName(t)}, srcTable : {t},
                      srcIndexes : SeqsUpTo(IdxPool, MaxIdx),
                      usedNames : {{}, {"Index_orders"}, {"idx", "idx_3"},
                                   {"Index_orders", "Index_orders_2"}}]
    /\ usedNames = arg.usedNames
    /\ srcSchema = EmptyMap
    /\ spSchema = EmptyMap
    /\ issues = EmptyMap
    /\ unexpected = <<>>
    /\ allocated = <<>>
    /\ seeded = {}
    /\ converted = {}
    /\ resolveCalls = 0
    /\ pc = IF Len(arg.srcIndexes) = 0 THEN "done" ELSE "cvtIndexes"
    /\ idx = 0
    /\ ret = <<>>
    /\ origin = <<>>

IdxStep ==
    /\ pc = "cvtIndexes"
    /\ idx < Len(arg.srcIndexes)
    /\ LET acc == [indexes |-> ret, used |-> usedNames, alloc |-> allocated,
                   diag |-> unexpected]
           out == IdxIter(acc, arg.spTableName, arg.srcTable,
                          arg.srcIndexes[idx + 1])
       IN  /\ ret' = out.indexes
           /\ usedNames' = out.used
           /\ allocated' = out.alloc
           /\ unexpected' = out.diag
           /\ origin' = IF Len(out.indexes) > Len(ret)
                        THEN Append(origin, idx + 1) ELSE origin
    /\ idx' = idx + 1
    /\ pc' = IF idx + 1 = Len(arg.srcIndexes) THEN "done" ELSE "cvtIndexes"
    /\ UNCHANGED <<targetDb, badTables, badCols, srcSchema, spSchema, issues,
                   seeded, converted, resolveCalls, arg>>

NextIdx == IdxStep

SpecIdx == InitIdx /\ [][NextIdx]_vars

-----------------------------------------------------------------------------
(* schemaToDDL. *)

SeedNameIgnored(used, r) == used

\* Line 46: usedNames[spTableName] = true, reached when the name resolved.
SeedName(used, r) == IF r.ok THEN used \cup {r.name} ELSE used

\* One iteration of the first loop (lines 40-47).  st holds usedNames and
\* the diagnostics.
SeedIter(st, srcTable) ==
    LET r == GetSpannerTable(srcTable.Name) IN
    [used |-> SeedName(st.used, r),
     diag |-> IF r.ok THEN st.diag
              ELSE Unexpected(st.diag,
                     [what |-> "table", table |-> srcTable.Name])]

\* Lines 96-103: the table is placed in conv.SpSchema.  c, p, f and x are
\* the results of the column loop and of the three converters.
PlaceTable(st, srcTable, name, c, p, f, x) ==
    [sp     |-> Put(st.sp, name,
                  [Name |-> name, ColNames |-> c.colNames,
                   ColDefs |-> c.colDefs, Pks |-> p.keys,
                   Fks |-> f.keys, Indexes |-> x.indexes]),
     issues |-> Put(st.issues, srcTable.Name, c.issues),
     used   |-> x.used,
     alloc  |-> x.alloc,
     diag   |-> x.diag]

\* Line 102: cvtIndexes, after cvtForeignKeys, on the same usedNames.
ConvertIndexes(st, srcTable, name, c, p, f) ==
    PlaceTable(st, srcTable, name, c, p, f,
               cvtIndexes(name, srcTable.Name, srcTable.Indexes,
                          f.used, f.alloc, f.diag))

\* Line 101: cvtForeignKeys, after cvtPrimaryKeys.
ConvertForeignKeys(st, srcTable, name, c, p) ==
    ConvertIndexes(st, srcTable, name, c, p,
                   cvtForeignKeys(srcTable.Name, srcTable.ForeignKeys,
                                  st.used, st.alloc, p.diag))

\* Line 100: cvtPrimaryKeys, after the column loop.
ConvertPrimaryKeys(st, srcTable, name, c) ==
    ConvertForeignKeys(st, srcTable, name, c,
                       cvtPrimaryKeys(srcTable.Name, srcTable.PrimaryKeys,
                                      c.diag))

\* One iteration of the second loop (lines 48-104).  st holds conv.SpSchema,
\* conv.Issues, usedNames, the names allocated so far and the diagnostics.
ConvertIter(st, srcTable) ==
    LET r == GetSpannerTable(srcTable.Name) IN
    IF ~r.ok
    THEN [st EXCEPT !.diag = Unexpected(@,
            [what |-> "table", table |-> srcTable.Name])]
    ELSE ConvertPrimaryKeys(st, srcTable, r.name,
            ColLoop([colNames |-> <<>>, colDefs |-> EmptyMap,
                     issues |-> EmptyMap, diag |-> st.diag],
                    srcTable, 1, Len(srcTable.ColNames)))

\* internal.ResolveRefs(conv): works on the finished conv.SpSchema in place;
\* the foreign keys built here name their tables and columns already.
ResolveRefs(sp) == sp

Tables == DOMAIN srcSchema

CanConvertEarly == TRUE

\* The second loop starts when the first has visited every table.
CanConvert == seeded = Tables

Phase(s, c, r) ==
    IF r > 0 THEN "done"
    ELSE IF c = Tables THEN "resolve"
    ELSE IF s = Tables THEN "convert"
    ELSE "seed"

\* A schema.Table.
Table(name, colNames, colDefs, pks, fks, indexes) ==
    [Name |-> name, ColNames |-> colNames, ColDefs |-> colDefs,
     PrimaryKeys |-> pks, ForeignKeys |-> fks, Indexes |-> indexes]

OrdersCols ==
    ("id" :> Column("id", "int8", <<>>, <<>>, TRUE, FALSE, FALSE)) @@
    ("ref" :> Column("ref", "int4", <<>>, <<>>, FALSE, TRUE, FALSE))

ItemsCols ==
    ("id" :> Column("id", "bigserial", <<>>, <<>>, TRUE, FALSE, FALSE)) @@
    ("ref" :> Column("ref", "text", <<>>, <<-1>>, FALSE, FALSE, FALSE))

OrdersFkPool ==
    {ForeignKey("fk", <<"ref">>, "line-items", <<"id">>),
     ForeignKey("line_items", <<"id", "ref">>, "line-items", <<"id", "ref">>)}

OrdersIdxPool ==
    {Index("", FALSE, <<Key("id", FALSE)>>),
     Index("fk", TRUE, <<Key("ref", TRUE), Key("id", FALSE)>>)}

ItemsFkPool == {ForeignKey("Index_orders", <<"ref">>, "orders", <<"id">>)}

ItemsIdxPool == {Index("fk", FALSE, <<Key("id", FALSE)>>)}

Init ==
    /\ targetDb = "spanner"
    /\ badTables \in {{}, {"orders"}, {"line-items"}}
    /\ badCols \in SUBSET {<<"orders", "ref">>, <<"line-items", "id">>}
    /\ srcSchema \in
          {("orders" :> Table("orders", <<"id", "ref">>, OrdersCols,
                              <<Key("id", FALSE)>>, ofk, oix)) @@
           ("line-items" :> Table("line-items", <<"id", "ref">>, ItemsCols,
                                  <<Key("id", FALSE), Key("ref", TRUE)>>,
                                  ifk, iix)) :
              ofk \in SeqsUpTo(OrdersFkPool, MaxFks),
              oix \in SeqsUpTo(OrdersIdxPool, MaxIdx),
              ifk \in SeqsUpTo(ItemsFkPool, MaxFks),
              iix \in SeqsUpTo(ItemsIdxPool, MaxIdx)}
    /\ spSchema = EmptyMap
    /\ issues = EmptyMap
    /\ unexpected = <<>>
    /\ usedNames = {}
    /\ allocated = <<>>
    /\ seeded = {}
    /\ converted = {}
    /\ resolveCalls = 0
    /\ pc = "seed"
    /\ arg = <<>>
    /\ idx = 0
    /\ ret = "running"
    /\ origin = <<>>

\* The first loop has table t left to visit.
SeedEnabled(t) == pc = "seed" /\ t \in Tables \ seeded

\* The second loop has started and has table t left to visit.
ConvertEnabled(t) == resolveCalls = 0 /\ CanConvert /\ t \in Tables \ converted

\* Both loops are over.
ResolveEnabled == pc = "resolve"

\* The first loop visits table t; Go ranges over the map in any order.
Seed(t) ==
    /\ SeedEnabled(t)
    /\ LET out == SeedIter([used |-> usedNames, diag |-> unexpected],
                           srcSchema[t])
       IN  /\ usedNames' = out.used
           /\ unexpected' = out.diag
    /\ seeded' = seeded \cup {t}
    /\ pc' = Phase(seeded', converted, resolveCalls)
    /\ UNCHANGED <<targetDb, badTables, badCols, srcSchema, spSchema, issues,
                   allocated, converted, resolveCalls, arg, idx, ret, origin>>

\* The second loop visits table t.
Convert(t) ==
    /\ ConvertEnabled(t)
    /\ LET out == ConvertIter([sp |-> spSchema, issues |-> issues,
                               used |-> usedNames, alloc |-> allocated,
                               diag |-> unexpected], srcSchema[t])
       IN  /\ spSchema' = out.sp
           /\ issues' = out.issues
           /\ usedNames' = out.used
           /\ allocated' = out.alloc
           /\ unexpected' = out.diag
    /\ converted' = converted \cup {t}
    /\ pc' = Phase(seeded, converted', resolveCalls)
    /\ UNCHANGED <<targetDb, badTables, badCols, srcSchema, seeded,
                   resolveCalls, arg, idx, ret, origin>>

\* Lines 105-106: the reference resolver runs and schemaToDDL returns nil.
Resolve ==
    /\ ResolveEnabled
    /\ spSchema' = ResolveRefs(spSchema)
    /\ resolveCalls' = resolveCalls + 1
    /\ ret' = "nil"
    /\ pc' = "done"
    /\ UNCHANGED <<targetDb, badTables, badCols, srcSchema, issues, unexpected,
                   usedNames, allocated, seeded, converted, arg, idx, origin>>

Next ==
    \/ \E t \in Tables : Seed(t)
    \/ \E t \in Tables : Convert(t)
    \/ Resolve

Spec == Init /\ [][Next]_vars

-----------------------------------------------------------------------------
(* The documented mapping table of the type mapper, one row per group of    *)
(* synonyms.  len is "none" (no length), "max", "N|1" (the first modifier,  *)
(* 1 without modifiers) or "N|max".                                         *)

Row(ids, tag, len, iss) == [ids |-> ids, tag |-> tag, len |-> len, issues |-> iss]

MappingTable(charIds) ==
    {Row({"bool", "boolean"}, Bool, "none", <<>>),
     Row({"bigserial"}, Int64, "none", <<"Serial">>),
     Row({"serial"}, Int64, "none", <<"Serial">>),
     Row(charIds, String, "N|1", <<>>),
     Row({"bytea"}, Bytes, "max", <<>>),
     Row({"date"}, Date, "none", <<>>),
     Row({"double precision", "float8"}, Float64, "none", <<>>),
     Row({"real", "float4"}, Float64, "none", <<"Widened">>),
     Row({"bigint", "int8"}, Int64, "none", <<>>),
     Row({"integer", "int4"}, Int64, "none", <<"Widened">>),
     Row({"smallint", "int2"}, Int64, "none", <<"Widened">>),
     Row({"numeric"}, Numeric, "none", <<>>),
     Row({"text"}, String, "max", <<>>),
     Row({"timestamp with time zone", "timestamptz"}, Timestamp, "none", <<>>),
     Row({"timestamp without time zone", "timestamp"}, Timestamp, "none",
         <<"Timestamp">>),
     Row({"varchar", "character varying"}, String, "N|max", <<>>)}

RowLen(row, mods) ==
    CASE row.len = "none" -> 0
      [] row.len = "max" -> MaxLength
      [] row.len = "N|1" -> IF Len(mods) > 0 THEN mods[1] ELSE 1
      [] row.len = "N|max" -> IF Len(mods) > 0 THEN mods[1] ELSE MaxLength

TableLookup(table, id, mods) ==
    IF \E row \in table : id \in row.ids
    THEN LET row == CHOOSE r \in table : id \in r.ids
         IN  Mapped(Type(row.tag, RowLen(row, mods)), row.issues)
    ELSE Mapped(Type(String, MaxLength), <<"NoGoodType">>)

\* C5 as stated: toSpannerType agrees with the mapping table whose character
\* row is keyed by char and bpchar (and their synonym character), every
\* other identifier giving String(max) with no-good-type-match, and the tag
\* is one of the eight tags.
C5_TableWithChar ==
    pc = "done" =>
        /\ ret = TableLookup(MappingTable({"char", "bpchar", "character"}),
                             arg.id, arg.mods)
        /\ ret.ty.Name \in TypeTags

\* C5 amended: toSpannerType is total and agrees with the mapping table whose
\* character row is keyed by bpchar and character only; the identifier char,
\* like every identifier outside the table, gives String(max) with the single
\* issue no-good-type-match; the tag is always one of the eight tags.
C5_TableWithoutChar ==
    pc = "done" =>
        /\ ret = TableLookup(MappingTable({"bpchar", "character"}),
                             arg.id, arg.mods)
        /\ ret.ty.Name \in TypeTags
        /\ ret.ty.IsArray = FALSE

C5_Witness ==
    /\ pc = "done"
    /\ arg.id = "char"
    /\ arg.mods = <<50>>
    /\ ret = Mapped(Type(String, MaxLength), <<"NoGoodType">>)

-----------------------------------------------------------------------------
(* Claims about the column loop, checked under SpecCol.  origin[i] is the   *)
(* position in arg.ColNames of the i-th emitted column.                     *)

SrcOf(i) == arg.ColDefs[arg.ColNames[origin[i]]]

DefOf(i) == ret.colDefs[ret.colNames[i]]

Recorded(src) ==
    IF src.Name \in DOMAIN issues[arg.Name]
    THEN issues[arg.Name][src.Name] ELSE <<>>

FlagIssues(src) ==
    (IF src.Ignored.ForeignKey THEN <<"ForeignKey">> ELSE <<>>) \o
    (IF src.Ignored.Default THEN <<"DefaultValue">> ELSE <<>>)

StringMax == [Name |-> String, Len |-> MaxLength, IsArray |-> FALSE]

\* C9: in standard mode more than one array dimension gives String(max)
\* without the array flag and appends multidimensional-array, one dimension
\* gives the mapped type with the array flag and no added issue, none gives
\* the mapped type unchanged; in experimental_postgres mode the array flag
\* is never set, Numeric and Date become String(max), any array becomes
\* String(max), every other type is unchanged, and no issue is added.
C9_PostProcessing ==
    \A i \in 1..Len(origin) :
        LET src == SrcOf(i)
            m   == toSpannerType(src.Type.Name, src.Type.Mods)
            d   == Len(src.Type.ArrayBounds)
            T   == DefOf(i).T
        IN  IF targetDb = ExperimentalPostgres
            THEN /\ T.IsArray = FALSE
                 /\ m.ty.Name \in {Numeric, Date} => T = StringMax
                 /\ d >= 1 => T = StringMax
                 /\ (m.ty.Name \notin {Numeric, Date} /\ d = 0) => T = m.ty
                 /\ Recorded(src) = m.issues \o FlagIssues(src)
            ELSE /\ d > 1 =>
                      /\ T = StringMax
                      /\ Recorded(src) = m.issues \o
                            <<"MultiDimensionalArray">> \o FlagIssues(src)
                 /\ d = 1 =>
                      /\ T = [m.ty EXCEPT !.IsArray = TRUE]
                      /\ Recorded(src) = m.issues \o FlagIssues(src)
                 /\ d = 0 =>
                      /\ T = m.ty
                      /\ Recorded(src) = m.issues \o FlagIssues(src)

\* Scenario D, and a date column under experimental_postgres.
C9_Witness ==
    /\ pc = "done"
    /\ targetDb = "spanner"
    /\ Len(origin) = 2
    /\ SrcOf(1).Type.Name = "int4"
    /\ Len(SrcOf(1).Type.ArrayBounds) = 2
    /\ DefOf(1).T = StringMax
    /\ Recorded(SrcOf(1)) = <<"Widened", "MultiDimensionalArray">>

\* A conversion is lossy or approximate when the mapping carries an issue,
\* when a post-processing rule replaced the type by String(max), or when an
\* ignored-feature flag is set.
Lossy(src) ==
    LET m == toSpannerType(src.Type.Name, src.Type.Mods)
        d == Len(src.Type.ArrayBounds)
    IN  \/ m.issues # <<>>
        \/ IF targetDb = ExperimentalPostgres
           THEN m.ty.Name \in {Numeric, Date} \/ d >= 1
           ELSE d > 1
        \/ src.Ignored.ForeignKey
        \/ src.Ignored.Default

\* C4: every emitted column whose conversion was lossy or approximate has at
\* least one issue in conv.Issues, and a column whose mapping was exact has
\* no entry, in both modes.
C4_LossyHasIssue ==
    \A i \in 1..Len(origin) :
        LET src == SrcOf(i) IN
        IF Lossy(src)
        THEN /\ src.Name \in DOMAIN issues[arg.Name]
             /\ Len(issues[arg.Name][src.Name]) >= 1
        ELSE src.Name \notin DOMAIN issues[arg.Name]

-----------------------------------------------------------------------------
(* Claims about cvtForeignKeys, checked under SpecFk.  origin[i] is the     *)
(* position in arg.srcKeys of the i-th emitted foreign key.                 *)

\* C1: every emitted foreign key has as many Columns and ReferColumns as its
\* source key has Columns; a key with an unresolved column pair is absent.
C1_NoPartialForeignKey ==
    \A i \in 1..Len(origin) :
        LET key == arg.srcKeys[origin[i]] IN
        /\ Len(ret[i].Columns) = Len(key.Columns)
        /\ Len(ret[i].ReferColumns) = Len(key.Columns)

\* A key the loop must skip before reading its columns.
Malformed(key) ==
    \/ Len(key.Columns) # Len(key.ReferColumns)
    \/ key.ReferTable \in badTables

DropDiagnostics ==
    {j \in 1..Len(unexpected) : unexpected[j].what \in {"fk-length", "fk-table"}}

\* C6: a foreign key whose column lists differ in length or whose referenced
\* table does not resolve is absent from the result and causes exactly one
\* diagnostic, and the loop goes on: every other key processed so far is
\* emitted, in source order, and the loop ends only after the last key.
C6_MalformedDropped ==
    LET dropped == {i \in 1..idx : Malformed(arg.srcKeys[i])} IN
    /\ \A j \in 1..Len(origin) : origin[j] \notin dropped
    /\ Cardinality(DropDiagnostics) = Cardinality(dropped)
    /\ \A j \in DropDiagnostics :
          /\ unexpected[j].table = arg.srcTable
          /\ \E i \in dropped : unexpected[j].refer = arg.srcKeys[i].ReferTable
    /\ \A i \in (1..idx) \ dropped : \E j \in 1..Len(origin) : origin[j] = i
    /\ \A j \in 1..(Len(origin) - 1) : origin[j] < origin[j + 1]
    /\ Len(ret) = Len(origin)
    /\ (pc = "done") <=> (idx = Len(arg.srcKeys))

\* Scenario F: the referenced table of the first key does not resolve, the
\* second key is emitted.
C6_Witness ==
    /\ pc = "done"
    /\ idx = 2
    /\ arg.srcKeys[1].ReferTable \in badTables
    /\ Len(arg.srcKeys[1].Columns) = Len(arg.srcKeys[1].ReferColumns)
    /\ origin = <<2>>
    /\ Cardinality(DropDiagnostics) = 1

-----------------------------------------------------------------------------
(* Claims about cvtIndexes, checked under SpecIdx. *)

\* The key columns of an index that resolve, in source order.
ResolvedKeys(keys) ==
    LET good == SelectSeq(keys,
                    LAMBDA k : <<arg.srcTable, k.Column>> \notin badCols)
    IN  [j \in 1..Len(good) |->
            [Col |-> SpName(good[j].Column), Desc |-> good[j].Desc]]

UnresolvedKeys(keys) ==
    {j \in 1..Len(keys) : <<arg.srcTable, keys[j].Column>> \in badCols}

\* The used-name set the i-th index is named against.
UsedBefore(i) == arg.usedNames \cup {ret[j].Name : j \in 1..(i - 1)}

RECURSIVE UnresolvedUpTo(_)
UnresolvedUpTo(i) ==
    IF i = 0 THEN 0
    ELSE UnresolvedUpTo(i - 1) +
         Cardinality(UnresolvedKeys(arg.srcIndexes[i].Keys))

\* C10: one target index per source index, in source order; its keys are the
\* key columns that resolve, in order with their Desc flags, each unresolved
\* one costing one diagnostic; its name is the allocator's result for the
\* declared name, or for Index_<source table> when that is empty, so an
\* unnamed index on orders is Index_orders, or Index_orders_2 when
\* Index_orders is taken.
C10_OneIndexPerSource ==
    /\ Len(ret) = idx
    /\ origin = [i \in 1..idx |-> i]
    /\ Len(unexpected) = UnresolvedUpTo(idx)
    /\ \A i \in 1..idx :
          LET src  == arg.srcIndexes[i]
              cand == IF src.Name = "" THEN "Index_" \o arg.srcTable
                      ELSE src.Name
          IN  /\ ret[i].Keys = ResolvedKeys(src.Keys)
              /\ ret[i].Unique = src.Unique
              /\ ret[i].Table = arg.spTableName
              /\ ret[i].Name = Allocate(cand, UsedBefore(i)).name
              /\ ret[i].Name \notin UsedBefore(i)
              /\ (src.Name = "" /\ arg.srcTable = "orders") =>
                    /\ "Index_orders" \notin UsedBefore(i) =>
                          ret[i].Name = "Index_orders"
                    /\ ("Index_orders" \in UsedBefore(i) /\
                        "Index_orders_2" \notin UsedBefore(i)) =>
                          ret[i].Name = "Index_orders_2"

\* Scenario E with Index_orders taken, and a key column that does not resolve.
C10_Witness ==
    /\ pc = "done"
    /\ idx = 2
    /\ arg.srcTable = "orders"
    /\ arg.usedNames = {"Index_orders"}
    /\ arg.srcIndexes[1].Name = ""
    /\ ret[1].Name = "Index_orders_2"
    /\ ret[2].Name = "Index_orders_3"
    /\ Len(arg.srcIndexes[1].Keys) = 2
    /\ ret[1].Keys = <<[Col |-> "id", Desc |-> FALSE]>>
    /\ Len(unexpected) >= 1

-----------------------------------------------------------------------------
(* schemaToDDL as one call: the first loop visits the tables in seedOrder,  *)
(* the second in convertOrder, starting from a fresh usedNames and registry. *)

RECURSIVE SeedLoop(_, _, _)
SeedLoop(st, order, i) ==
    IF i > Len(order) THEN st
    ELSE SeedLoop(SeedIter(st, srcSchema[order[i]]), order, i + 1)

RECURSIVE ConvertLoop(_, _, _)
ConvertLoop(st, order, i) ==
    IF i > Len(order) THEN st
    ELSE ConvertLoop(ConvertIter(st, srcSchema[order[i]]), order, i + 1)

schemaToDDL(seedOrder, convertOrder) ==
    LET s == SeedLoop([used |-> {}, diag |-> <<>>], seedOrder, 1)
        c == ConvertLoop([sp |-> EmptyMap, issues |-> EmptyMap,
                          used |-> s.used, alloc |-> <<>>, diag |-> s.diag],
                         convertOrder, 1)
    IN  [sp |-> ResolveRefs(c.sp), issues |-> c.issues]

\* The orders in which a range over conv.SrcSchema can visit the tables.
VisitOrders ==
    {o \in [1..Cardinality(Tables) -> Tables] :
        \A i, j \in DOMAIN o : i # j => o[i] # o[j]}

-----------------------------------------------------------------------------
(* Claims about schemaToDDL, checked under Spec. *)

\* The source tables whose name resolves.
Resolvable == {t \in Tables : t \notin badTables}

\* The named entities of the target namespace: the resolved tables, and the
\* foreign keys and indexes emitted so far.
Entities ==
    {<<"table", t, 0>> : t \in Resolvable} \cup
    UNION {{<<"fk", n, i>> : i \in 1..Len(spSchema[n].Fks)} :
              n \in DOMAIN spSchema} \cup
    UNION {{<<"index", n, i>> : i \in 1..Len(spSchema[n].Indexes)} :
              n \in DOMAIN spSchema}

NameOf(e) ==
    CASE e[1] = "table" -> SpName(e[2])
      [] e[1] = "fk" -> spSchema[e[2]].Fks[e[3]].Name
      [] e[1] = "index" -> spSchema[e[2]].Indexes[e[3]].Name

NamesDistinct ==
    \A e1, e2 \in Entities : e1 # e2 => NameOf(e1) # NameOf(e2)

NeverReissued ==
    /\ \A i, j \in 1..Len(allocated) : i # j => allocated[i] # allocated[j]
    /\ \A i \in 1..Len(allocated) : allocated[i] \in usedNames

\* C2: no two entities among the resolved tables, the emitted foreign keys
\* and the emitted indexes share a name, and usedNames only grows: a name in
\* it stays, and no name is handed out twice.
C2_NamesUnique ==
    /\ [](NamesDistinct /\ NeverReissued)
    /\ [][/\ usedNames \subseteq usedNames'
          /\ \A i \in 1..Len(allocated) : allocated'[i] = allocated[i]
          /\ \A i \in (Len(allocated) + 1)..Len(allocated') :
                allocated'[i] \notin usedNames]_vars

\* A foreign key declared line_items and an index declared fk, both renamed.
C2_Witness ==
    /\ pc = "done"
    /\ badTables = {}
    /\ "line_items_2" \in {spSchema["orders"].Fks[i].Name :
                              i \in 1..Len(spSchema["orders"].Fks)}
    /\ \E n \in DOMAIN spSchema : \E i \in 1..Len(spSchema[n].Indexes) :
          spSchema[n].Indexes[i].Name = "fk_2"

\* C3: the target schema and the issue registry schemaToDDL ends with are
\* those of every other run on the same source schema, whatever order the
\* two loops of that run visit the tables in.
C3_SameResultInAnyOrder ==
    pc = "done" =>
        \A o1, o2 \in VisitOrders :
            /\ schemaToDDL(o1, o2).sp = spSchema
            /\ schemaToDDL(o1, o2).issues = issues

PhaseRank(p) ==
    CASE p = "seed" -> 1 [] p = "convert" -> 2 [] p = "resolve" -> 3
      [] p = "done" -> 4

\* C7: the phases run in order and none is re-entered; when the first
\* foreign key or index name is allocated every resolvable table name is in
\* usedNames; ResolveRefs is called exactly once, after every table has been
\* visited by the second loop and the resolvable ones placed in SpSchema.
C7_PhasesInOrder ==
    /\ [](/\ allocated # <<>> => \A t \in Resolvable : SpName(t) \in usedNames
          /\ converted # {} => seeded = Tables
          /\ resolveCalls \in {0, 1}
          /\ resolveCalls = 1 =>
                /\ converted = Tables
                /\ \A t \in Resolvable : SpName(t) \in DOMAIN spSchema
          /\ (pc = "done") <=> (resolveCalls = 1))
    /\ [][/\ PhaseRank(pc) <= PhaseRank(pc')
          /\ seeded \subseteq seeded'
          /\ converted \subseteq converted'
          /\ resolveCalls' # resolveCalls => pc = "resolve"]_vars

C7_Witness ==
    /\ pc = "done"
    /\ resolveCalls = 1
    /\ badTables = {}
    /\ Len(allocated) >= 3
    /\ DOMAIN spSchema = {"orders", "line_items"}

\* The target names of the columns of table t that resolve, in declaration
\* order.
ResolvableCols(t) ==
    SelectSeq(srcSchema[t].ColNames, LAMBDA c : <<t, c>> \notin badCols)

\* C8: schemaToDDL has a step to take until it has returned, and it returns
\* nil after the reference resolution; SpSchema then has an entry for exactly the tables whose name
\* resolved, the ColNames of each are the target names of its resolvable
\* columns in declaration order, a failing column is in neither ColNames,
\* ColDefs nor the issue registry, and every other column is converted as if
\* nothing had failed.
C8_FailuresSkipped ==
    /\ \/ pc = "done"
       \/ \E t \in Tables : SeedEnabled(t) \/ ConvertEnabled(t)
       \/ ResolveEnabled
    /\ pc = "done" =>
          /\ ret = "nil"
          /\ DOMAIN spSchema = {SpName(t) : t \in Resolvable}
          /\ DOMAIN issues = Resolvable
          /\ \A t \in Resolvable :
                LET good == ResolvableCols(t)
                    sp   == spSchema[SpName(t)]
                IN  /\ sp.Name = SpName(t)
                    /\ sp.ColNames = [i \in 1..Len(good) |-> SpName(good[i])]
                    /\ DOMAIN sp.ColDefs = {SpName(good[i]) : i \in 1..Len(good)}
                    /\ DOMAIN issues[t] \subseteq {good[i] : i \in 1..Len(good)}
                    /\ \A i \in 1..Len(good) :
                          LET src == srcSchema[t].ColDefs[good[i]]
                              c   == ConvertColumn(src)
                          IN  /\ sp.ColDefs[SpName(good[i])] =
                                    [Name |-> SpName(good[i]), T |-> c.ty,
                                     NotNull |-> src.NotNull]
                              /\ c.issues # <<>> =>
                                    /\ good[i] \in DOMAIN issues[t]
                                    /\ issues[t][good[i]] = c.issues

\* One table and a column of the other table fail to resolve.
C8_Witness ==
    /\ pc = "done"
    /\ ret = "nil"
    /\ badTables = {"line-items"}
    /\ badCols = {<<"orders", "ref">>, <<"line-items", "id">>}
    /\ DOMAIN spSchema = {"orders"}
    /\ spSchema["orders"].ColNames = <<"id">>
    /\ issues = ("orders" :> EmptyMap)

=============================================================================
